---- MODULE Spec2Model ----
(***************************************************************************)
(* tmn (Too Many Numbers): complex numbers (CNum), quaternions (QNum) and  *)
(* the unified value Nums, with its rotation.                              *)
(*                                                                         *)
(* The library is a set of pure functions over f32.  An f32 is modelled as *)
(* an exact number (a + b*sqrt(2))/d with integer a, b, d, or one of the   *)
(* IEEE-754 special values NaN, +Infinity, -Infinity.  Arithmetic on finite *)
(* values is exact: rounding, overflow and underflow of the 32-bit format  *)
(* are not modelled, and there is one zero.  The special values follow     *)
(* IEEE-754 (x/0, Inf-Inf, 0*Inf, NaN propagation, NaN /= NaN).            *)
(* sqrt(2) is in the number domain because cos and sin of the half angles  *)
(* of quarter-turn rotations are 0, +-1 and +-sqrt(2)/2.                   *)
(***************************************************************************)
EXTENDS Integers, Sequences, FiniteSets, TLC

(***************************************************************************)
(* Bounds.                                                                 *)
(***************************************************************************)
\* Components of the inputs are the integers -1 .. MaxCoef.
MaxCoef == 1
\* Rotation angles are the multiples 0, 90, ..., 90*MaxQuarter of 90 degrees.
MaxQuarter == 4

(***************************************************************************)
(* f32                                                                     *)
(***************************************************************************)
Abs(x) == IF x < 0 THEN -x ELSE x

Sgn(x) == IF x < 0 THEN -1 ELSE IF x = 0 THEN 0 ELSE 1

RECURSIVE GCD(_, _)
GCD(m, n) == IF n = 0 THEN m ELSE GCD(n, m % n)

\* The finite value (a + b*sqrt(2))/d, d /= 0, in lowest terms with d > 0.
Fin(a, b, d) ==
    IF d = 1 THEN [k |-> "fin", a |-> a, b |-> b, d |-> 1]
    ELSE LET g1 == GCD(Abs(d), Abs(a))
             g == IF g1 = 1 THEN 1 ELSE GCD(g1, Abs(b))
             s == IF d < 0 THEN -1 ELSE 1
         IN  [k |-> "fin", a |-> (s * a) \div g, b |-> (s * b) \div g,
              d |-> Abs(d) \div g]

F(n) == Fin(n, 0, 1)

NaN == [k |-> "nan", a |-> 0, b |-> 0, d |-> 1]

PInf == [k |-> "inf", a |-> 1, b |-> 0, d |-> 1]

NInf == [k |-> "inf", a |-> -1, b |-> 0, d |-> 1]

is_nan(x) == x.k = "nan"

IsInf(x) == x.k = "inf"

is_finite(x) == x.k = "fin"

\* The sign of a value that is not NaN: -1, 0 or 1.
Sign(x) ==
    IF x.k = "inf" THEN x.a
    ELSE IF x.a >= 0 /\ x.b >= 0 THEN (IF x.a = 0 /\ x.b = 0 THEN 0 ELSE 1)
    ELSE IF x.a <= 0 /\ x.b <= 0 THEN -1
    ELSE IF x.a > 0 THEN Sgn(x.a * x.a - 2 * x.b * x.b)
    ELSE Sgn(2 * x.b * x.b - x.a * x.a)

IsZero(x) == x.k = "fin" /\ x.a = 0 /\ x.b = 0

InfOfSign(s) == IF s < 0 THEN NInf ELSE PInf

\* -x
FNeg(x) ==
    IF x.k = "nan" THEN NaN
    ELSE IF x.k = "inf" THEN InfOfSign(-x.a)
    ELSE Fin(-x.a, -x.b, x.d)

\* x + y
FAdd(x, y) ==
    IF x.k = "nan" \/ y.k = "nan" THEN NaN
    ELSE IF x.k = "inf" /\ y.k = "inf" THEN (IF x.a = y.a THEN x ELSE NaN)
    ELSE IF x.k = "inf" THEN x
    ELSE IF y.k = "inf" THEN y
    ELSE Fin(x.a * y.d + y.a * x.d, x.b * y.d + y.b * x.d, x.d * y.d)

\* x - y
FSub(x, y) == FAdd(x, FNeg(y))

\* x * y
FMul(x, y) ==
    IF x.k = "nan" \/ y.k = "nan" THEN NaN
    ELSE IF x.k = "inf" \/ y.k = "inf"
         THEN (IF Sign(x) * Sign(y) = 0 THEN NaN ELSE InfOfSign(Sign(x) * Sign(y)))
    ELSE Fin(x.a * y.a + 2 * x.b * y.b, x.a * y.b + x.b * y.a, x.d * y.d)

\* x / y
FDiv(x, y) ==
    IF x.k = "nan" \/ y.k = "nan" THEN NaN
    ELSE IF x.k = "inf" /\ y.k = "inf" THEN NaN
    ELSE IF x.k = "inf" THEN InfOfSign(IF Sign(y) < 0 THEN -x.a ELSE x.a)
    ELSE IF y.k = "inf" THEN F(0)
    ELSE IF IsZero(y) THEN (IF IsZero(x) THEN NaN ELSE InfOfSign(Sign(x)))
    ELSE \* 1/y = d*(a - b*sqrt(2)) / (a*a - 2*b*b)
         FMul(x, Fin(y.d * y.a, -(y.d * y.b), y.a * y.a - 2 * y.b * y.b))

\* x == y on f32: NaN is equal to nothing.
FEq(x, y) == x.k /= "nan" /\ y.k /= "nan" /\ x = y

\* The integer square root of n, when n is a perfect square; -1 otherwise.
ISqrt(n) == IF \E s \in 0..n : s * s = n THEN CHOOSE s \in 0..n : s * s = n ELSE -1

\* Whether x.powf(0.5) is a number of the model: x is special, or a rational
\* p/q whose root is rational or a rational multiple of sqrt(2).
HasRoot(x) ==
    \/ x.k /= "fin"
    \/ Sign(x) < 0
    \/ /\ x.b = 0
       /\ \/ ISqrt(x.a * x.d) >= 0
          \/ (x.a * x.d) % 2 = 0 /\ ISqrt((x.a * x.d) \div 2) >= 0

\* x.powf(0.5), for the x with HasRoot(x): sqrt(a/d) = sqrt(a*d)/d.
powf_half(x) ==
    IF x.k = "nan" THEN NaN
    ELSE IF x.k = "inf" THEN PInf
    ELSE IF Sign(x) < 0 THEN NaN
    ELSE IF ISqrt(x.a * x.d) >= 0 THEN Fin(ISqrt(x.a * x.d), 0, x.d)
    ELSE Fin(0, ISqrt((x.a * x.d) \div 2), x.d)

(***************************************************************************)
(* Angles in radians are counted in units of pi/4, so PI is 4 units and    *)
(* cos and sin are tables over the integer number of units modulo 8.       *)
(***************************************************************************)
PI == 4

HalfRoot2 == Fin(0, 1, 2)

cos(x) ==
    IF x.k /= "fin" THEN NaN
    ELSE CASE x.a % 8 = 0 -> F(1)
           [] x.a % 8 = 1 -> HalfRoot2
           [] x.a % 8 = 2 -> F(0)
           [] x.a % 8 = 3 -> FNeg(HalfRoot2)
           [] x.a % 8 = 4 -> F(-1)
           [] x.a % 8 = 5 -> FNeg(HalfRoot2)
           [] x.a % 8 = 6 -> F(0)
           [] x.a % 8 = 7 -> HalfRoot2

sin(x) ==
    IF x.k /= "fin" THEN NaN
    ELSE CASE x.a % 8 = 0 -> F(0)
           [] x.a % 8 = 1 -> HalfRoot2
           [] x.a % 8 = 2 -> F(1)
           [] x.a % 8 = 3 -> HalfRoot2
           [] x.a % 8 = 4 -> F(0)
           [] x.a % 8 = 5 -> FNeg(HalfRoot2)
           [] x.a % 8 = 6 -> F(-1)
           [] x.a % 8 = 7 -> FNeg(HalfRoot2)

(***************************************************************************)
(* cassette::eq(c, idx): whether bit idx of the mask c is set.  The module *)
(* cassette is declared in lib.rs and its file is not among the sources;   *)
(* this is its contract, is_set(c, idx) == ((c >> idx) & 1) != 0.          *)
(***************************************************************************)
cassette_eq(c, idx) == (c \div (2 ^ idx)) % 2 /= 0

(***************************************************************************)
(* complex::CNum {r, i}                                                    *)
(***************************************************************************)
CNum_make_zero == [r |-> F(0), i |-> F(0)]

CNum_make(r, i) == [r |-> r, i |-> i]

CNum_clone(self) == [r |-> self.r, i |-> self.i]

CNum_get(self) == <<self.r, self.i>>

\* A slip: the imaginary part is dropped, not negated.
CNum_conj_DropsI(self) == [r |-> self.r, i |-> F(0)]

CNum_conj(self) == [r |-> self.r, i |-> FNeg(self.i)]

CNum_add_r(self, v) == [r |-> FAdd(self.r, v), i |-> self.i]

CNum_add_c(self, v) == [r |-> FAdd(self.r, v.r), i |-> FAdd(self.i, v.i)]

CNum_mult_r(self, v) == [r |-> FMul(self.r, v), i |-> FMul(self.i, v)]

CNum_mult_c(self, v) ==
    LET r == CNum_get(self)[1]
        i == CNum_get(self)[2]
    IN  [r |-> FSub(FMul(r, v.r), FMul(i, v.i)),
         i |-> FAdd(FMul(r, v.i), FMul(v.r, i))]

CNum_div_c(self, v) ==
    LET divisor == CNum_mult_c(v, CNum_conj(v)).r
        numerator == CNum_mult_c(self, CNum_conj(v))
    IN  CNum_mult_r(numerator, FDiv(F(1), divisor))

\* self.pow(v) for an integer v >= 0, where the polar form
\* modl^v * (cos(v*atan2(i, r)), sin(v*atan2(i, r))) of the source is the v-fold
\* product of self (de Moivre), and (1, 0) for v = 0 (powf(x, 0) = 1).
RECURSIVE CNum_powi(_, _)
CNum_powi(self, n) ==
    IF n = 0 THEN CNum_make(F(1), F(0)) ELSE CNum_mult_c(CNum_powi(self, n - 1), self)

CNum_pow(self, v) == CNum_powi(self, v.a)

CNum_set(self, c, v) ==
    LET ret0 == CNum_clone(self)
        ret1 == IF cassette_eq(c, 0) THEN [ret0 EXCEPT !.r = v] ELSE ret0
        ret2 == IF cassette_eq(c, 1) THEN [ret1 EXCEPT !.i = v] ELSE ret1
    IN  ret2

CNum_eq(self, other) == FEq(self.r, other.r) /\ FEq(self.i, other.i)

CNum_neg(self) == CNum_mult_r(self, F(-1))

(***************************************************************************)
(* quaternion::QNum {r, i, j, k}                                           *)
(***************************************************************************)
QNum_make_zero == [r |-> F(0), i |-> F(0), j |-> F(0), k |-> F(0)]

QNum_make_from_r(r, i, j, k) == [r |-> r, i |-> i, j |-> j, k |-> k]

QNum_make_from_c(w1, w2) ==
    [r |-> CNum_get(w1)[1], i |-> CNum_get(w1)[2],
     j |-> CNum_get(w2)[1], k |-> CNum_get(w2)[2]]

\* A slip: the angle is not halved.
QNum_make_from_a_FullAngle(ang, vec) ==
    [r |-> cos(ang),
     i |-> FMul(sin(ang), vec[1]),
     j |-> FMul(sin(ang), vec[2]),
     k |-> FMul(sin(ang), vec[3])]

QNum_make_from_a(ang, vec) ==
    [r |-> cos(FDiv(ang, F(2))),
     i |-> FMul(sin(FDiv(ang, F(2))), vec[1]),
     j |-> FMul(sin(FDiv(ang, F(2))), vec[2]),
     k |-> FMul(sin(FDiv(ang, F(2))), vec[3])]

QNum_clone(self) == [r |-> self.r, i |-> self.i, j |-> self.j, k |-> self.k]

QNum_get(self) == <<self.r, self.i, self.j, self.k>>

\* A slip: k is not negated.
QNum_conj_KeepsK(self) ==
    [r |-> self.r, i |-> FNeg(self.i), j |-> FNeg(self.j), k |-> self.k]

QNum_conj(self) ==
    [r |-> self.r, i |-> FNeg(self.i), j |-> FNeg(self.j), k |-> FNeg(self.k)]

QNum_add_r(self, v) == [r |-> FAdd(self.r, v), i |-> self.i, j |-> self.j, k |-> self.k]

\* A slip: the imaginary part of the complex number is added to j as well.
QNum_add_c_SpillsIntoJ(self, v) ==
    LET r == CNum_get(v)[1]
        i == CNum_get(v)[2]
    IN  [r |-> FAdd(self.r, r), i |-> FAdd(self.i, i), j |-> FAdd(self.j, i), k |-> self.k]

QNum_add_c(self, v) ==
    LET r == CNum_get(v)[1]
        i == CNum_get(v)[2]
    IN  [r |-> FAdd(self.r, r), i |-> FAdd(self.i, i), j |-> self.j, k |-> self.k]

QNum_add_q(self, v) ==
    [r |-> FAdd(self.r, v.r), i |-> FAdd(self.i, v.i),
     j |-> FAdd(self.j, v.j), k |-> FAdd(self.k, v.k)]

QNum_mult_r(self, v) ==
    [r |-> FMul(self.r, v), i |-> FMul(self.i, v),
     j |-> FMul(self.j, v), k |-> FMul(self.k, v)]

\* A slip: the complex number is the left factor (v*self for self*v).
QNum_mult_c_LeftFactor(self, v) ==
    LET r == CNum_get(v)[1]
        i == CNum_get(v)[2]
        r1 == QNum_get(self)[1]
        i1 == QNum_get(self)[2]
        j1 == QNum_get(self)[3]
        k1 == QNum_get(self)[4]
    IN  [r |-> FSub(FMul(r1, r), FMul(i1, i)),
         i |-> FAdd(FMul(i1, r), FMul(r1, i)),
         j |-> FSub(FMul(j1, r), FMul(k1, i)),
         k |-> FAdd(FMul(k1, r), FMul(j1, i))]

QNum_mult_c(self, v) ==
    LET r == CNum_get(v)[1]
        i == CNum_get(v)[2]
        r1 == QNum_get(self)[1]
        i1 == QNum_get(self)[2]
        j1 == QNum_get(self)[3]
        k1 == QNum_get(self)[4]
    IN  [r |-> FSub(FMul(r1, r), FMul(i1, i)),
         i |-> FAdd(FMul(i1, r), FMul(r1, i)),
         j |-> FAdd(FMul(j1, r), FMul(k1, i)),
         k |-> FSub(FMul(k1, r), FMul(j1, i))]

\* A slip: the sign of u1*y2 in k.
QNum_mult_q_SignSlip(self, v) ==
    LET x1 == QNum_get(self)[1]
        y1 == QNum_get(self)[2]
        u1 == QNum_get(self)[3]
        v1 == QNum_get(self)[4]
        x2 == QNum_get(v)[1]
        y2 == QNum_get(v)[2]
        u2 == QNum_get(v)[3]
        v2 == QNum_get(v)[4]
    IN  [r |-> FSub(FSub(FSub(FMul(x1, x2), FMul(y1, y2)), FMul(u1, u2)), FMul(v1, v2)),
         i |-> FSub(FAdd(FAdd(FMul(x1, y2), FMul(y1, x2)), FMul(u1, v2)), FMul(v1, u2)),
         j |-> FAdd(FAdd(FSub(FMul(x1, u2), FMul(y1, v2)), FMul(u1, x2)), FMul(v1, y2)),
         k |-> FAdd(FAdd(FAdd(FMul(x1, v2), FMul(y1, u2)), FMul(u1, y2)), FMul(v1, x2))]

QNum_mult_q(self, v) ==
    LET x1 == QNum_get(self)[1]
        y1 == QNum_get(self)[2]
        u1 == QNum_get(self)[3]
        v1 == QNum_get(self)[4]
        x2 == QNum_get(v)[1]
        y2 == QNum_get(v)[2]
        u2 == QNum_get(v)[3]
        v2 == QNum_get(v)[4]
    IN  [r |-> FSub(FSub(FSub(FMul(x1, x2), FMul(y1, y2)), FMul(u1, u2)), FMul(v1, v2)),
         i |-> FSub(FAdd(FAdd(FMul(x1, y2), FMul(y1, x2)), FMul(u1, v2)), FMul(v1, u2)),
         j |-> FAdd(FAdd(FSub(FMul(x1, u2), FMul(y1, v2)), FMul(u1, x2)), FMul(v1, y2)),
         k |-> FAdd(FSub(FAdd(FMul(x1, v2), FMul(y1, u2)), FMul(u1, y2)), FMul(v1, x2))]

QNum_norm(self) == QNum_mult_q(self, QNum_conj(self)).r

QNum_modl(self) == powf_half(QNum_norm(self))

\* A slip: a guard that returns the zero quaternion when the norm is 0.
QNum_inv_GuardsZero(self) ==
    IF FEq(QNum_norm(self), F(0)) THEN QNum_make_zero
    ELSE QNum_mult_r(QNum_conj(self), FDiv(F(1), QNum_norm(self)))

QNum_inv(self) == QNum_mult_r(QNum_conj(self), FDiv(F(1), QNum_norm(self)))

\* A slip: the indices of j and k are exchanged.
QNum_set_WrongIndex(self, c, v) ==
    LET ret0 == QNum_clone(self)
        ret1 == IF cassette_eq(c, 0) THEN [ret0 EXCEPT !.r = v] ELSE ret0
        ret2 == IF cassette_eq(c, 1) THEN [ret1 EXCEPT !.i = v] ELSE ret1
        ret3 == IF cassette_eq(c, 3) THEN [ret2 EXCEPT !.j = v] ELSE ret2
        ret4 == IF cassette_eq(c, 2) THEN [ret3 EXCEPT !.k = v] ELSE ret3
    IN  ret4

QNum_set(self, c, v) ==
    LET ret0 == QNum_clone(self)
        ret1 == IF cassette_eq(c, 0) THEN [ret0 EXCEPT !.r = v] ELSE ret0
        ret2 == IF cassette_eq(c, 1) THEN [ret1 EXCEPT !.i = v] ELSE ret1
        ret3 == IF cassette_eq(c, 2) THEN [ret2 EXCEPT !.j = v] ELSE ret2
        ret4 == IF cassette_eq(c, 3) THEN [ret3 EXCEPT !.k = v] ELSE ret3
    IN  ret4

QNum_eq(self, other) ==
    FEq(self.r, other.r) /\ FEq(self.i, other.i) /\ FEq(self.j, other.j) /\ FEq(self.k, other.k)

QNum_neg(self) == QNum_mult_r(self, F(-1))

(***************************************************************************)
(* enum Nums { Real(f32), Complex(CNum), Quaternion(QNum) }                *)
(***************************************************************************)
Real(re) == [tag |-> "Real", val |-> re]

Complex(cnum) == [tag |-> "Complex", val |-> cnum]

Quaternion(qnum) == [tag |-> "Quaternion", val |-> qnum]

\* The outcome of a call: a returned value, or a panic (a failed assert!).
Returns(value) == [aborted |-> FALSE, value |-> value]

Panics == [aborted |-> TRUE, value |-> "none"]

Nums_conj(self) ==
    CASE self.tag = "Real" -> Real(self.val)
      [] self.tag = "Complex" -> Complex(CNum_conj(self.val))
      [] self.tag = "Quaternion" -> Quaternion(QNum_conj(self.val))

Nums_normalize(o) ==
    LET m == powf_half(FAdd(FAdd(FMul(o[1], o[1]), FMul(o[2], o[2])), FMul(o[3], o[3])))
    IN  IF FEq(m, F(0)) THEN <<NaN, NaN, NaN>>
        ELSE <<FDiv(o[1], m), FDiv(o[2], m), FDiv(o[3], m)>>

\* A slip: the assertion is made before the match, for every variant.
Nums_rot_AssertsBeforeMatch(self, ang, o0) ==
    LET o == Nums_normalize(o0)
    IN  IF ~(~is_nan(o[1])) THEN Panics
        ELSE CASE self.tag = "Real" -> Returns(Real(self.val))
               [] self.tag = "Complex" ->
                     Returns(Complex(CNum_pow(self.val, FDiv(ang, F(90)))))
               [] self.tag = "Quaternion" ->
                     LET q == QNum_make_from_a(FDiv(FMul(ang, F(PI)), F(180)), o)
                     IN  Returns(Quaternion(
                             QNum_mult_q(QNum_mult_q(q, QNum_clone(self.val)), QNum_conj(q))))

Nums_rot(self, ang, o0) ==
    LET o == Nums_normalize(o0)
    IN  CASE self.tag = "Real" -> Returns(Real(self.val))
          [] self.tag = "Complex" ->
                Returns(Complex(CNum_pow(self.val, FDiv(ang, F(90)))))
          [] self.tag = "Quaternion" ->
                IF ~(~is_nan(o[1])) THEN Panics
                ELSE LET q == QNum_make_from_a(FDiv(FMul(ang, F(PI)), F(180)), o)
                     IN  Returns(Quaternion(
                             QNum_mult_q(QNum_mult_q(q, QNum_clone(self.val)), QNum_conj(q))))

\* A slip: set writes the value into a Real when the R bit of the mask is set.
Nums_set_WritesReal(self, c, v) ==
    CASE self.tag = "Real" -> Real(IF cassette_eq(c, 0) THEN v ELSE self.val)
      [] self.tag = "Complex" -> Complex(CNum_set(self.val, c, v))
      [] self.tag = "Quaternion" -> Quaternion(QNum_set(self.val, c, v))

Nums_set(self, c, v) ==
    CASE self.tag = "Real" -> Real(self.val)
      [] self.tag = "Complex" -> Complex(CNum_set(self.val, c, v))
      [] self.tag = "Quaternion" -> Quaternion(QNum_set(self.val, c, v))

Nums_clone(self) ==
    CASE self.tag = "Real" -> Real(self.val)
      [] self.tag = "Complex" -> Complex(CNum_clone(self.val))
      [] self.tag = "Quaternion" -> Quaternion(QNum_clone(self.val))

Nums_eq(self, other) ==
    CASE self.tag = "Real" -> other.tag = "Real" /\ FEq(other.val, self.val)
      [] self.tag = "Complex" -> other.tag = "Complex" /\ CNum_eq(self.val, other.val)
      [] self.tag = "Quaternion" -> other.tag = "Quaternion" /\ QNum_eq(self.val, other.val)

\* A slip: Complex + Real is narrowed to Real.
Nums_add_NarrowsToReal(self, rhs) ==
    CASE self.tag = "Real" ->
            (CASE rhs.tag = "Real" -> Real(FAdd(self.val, rhs.val))
               [] rhs.tag = "Complex" -> Complex(CNum_add_r(rhs.val, self.val))
               [] rhs.tag = "Quaternion" -> Quaternion(QNum_add_r(rhs.val, self.val)))
      [] self.tag = "Complex" ->
            (CASE rhs.tag = "Real" -> Real(FAdd(self.val.r, rhs.val))
               [] rhs.tag = "Complex" -> Complex(CNum_add_c(self.val, rhs.val))
               [] rhs.tag = "Quaternion" ->
                     Quaternion(QNum_add_c(rhs.val, CNum_clone(self.val))))
      [] self.tag = "Quaternion" ->
            (CASE rhs.tag = "Real" -> Quaternion(QNum_add_r(self.val, rhs.val))
               [] rhs.tag = "Complex" -> Quaternion(QNum_add_c(self.val, rhs.val))
               [] rhs.tag = "Quaternion" -> Quaternion(QNum_add_q(self.val, rhs.val)))

Nums_add(self, rhs) ==
    CASE self.tag = "Real" ->
            (CASE rhs.tag = "Real" -> Real(FAdd(self.val, rhs.val))
               [] rhs.tag = "Complex" -> Complex(CNum_add_r(rhs.val, self.val))
               [] rhs.tag = "Quaternion" -> Quaternion(QNum_add_r(rhs.val, self.val)))
      [] self.tag = "Complex" ->
            (CASE rhs.tag = "Real" -> Complex(CNum_add_r(self.val, rhs.val))
               [] rhs.tag = "Complex" -> Complex(CNum_add_c(self.val, rhs.val))
               [] rhs.tag = "Quaternion" ->
                     Quaternion(QNum_add_c(rhs.val, CNum_clone(self.val))))
      [] self.tag = "Quaternion" ->
            (CASE rhs.tag = "Real" -> Quaternion(QNum_add_r(self.val, rhs.val))
               [] rhs.tag = "Complex" -> Quaternion(QNum_add_c(self.val, rhs.val))
               [] rhs.tag = "Quaternion" -> Quaternion(QNum_add_q(self.val, rhs.val)))

Nums_mul(self, rhs) ==
    CASE self.tag = "Real" ->
            (CASE rhs.tag = "Real" -> Real(FMul(self.val, rhs.val))
               [] rhs.tag = "Complex" -> Complex(CNum_mult_r(rhs.val, self.val))
               [] rhs.tag = "Quaternion" -> Quaternion(QNum_mult_r(rhs.val, self.val)))
      [] self.tag = "Complex" ->
            (CASE rhs.tag = "Real" -> Complex(CNum_mult_r(self.val, rhs.val))
               [] rhs.tag = "Complex" -> Complex(CNum_mult_c(self.val, rhs.val))
               [] rhs.tag = "Quaternion" ->
                     Quaternion(QNum_mult_c(rhs.val, CNum_clone(self.val))))
      [] self.tag = "Quaternion" ->
            (CASE rhs.tag = "Real" -> Quaternion(QNum_mult_r(self.val, rhs.val))
               [] rhs.tag = "Complex" -> Quaternion(QNum_mult_c(self.val, rhs.val))
               [] rhs.tag = "Quaternion" -> Quaternion(QNum_mult_q(self.val, rhs.val)))

Nums_neg(self) == Nums_mul(self, Real(F(-1)))

(***************************************************************************)
(* The inputs of the calls.                                                *)
(***************************************************************************)
\* c: u8
U8Max == 255

Masks == 0..U8Max

Coefs == {F(n) : n \in (-1)..MaxCoef}

CNums == {CNum_make(r, i) : r \in Coefs, i \in Coefs}

QNums == {QNum_make_from_r(r, i, j, k) : r \in Coefs, i \in Coefs, j \in Coefs, k \in Coefs}

AllNums == {Real(x) : x \in Coefs} \cup {Complex(c) : c \in CNums}
               \cup {Quaternion(q) : q \in QNums}

\* The values written by set: one of the component range and one outside it.
SetVals == {F(0), F(MaxCoef + 1)}

\* Angles in degrees.
Angles == {F(90 * n) : n \in 0..MaxQuarter}

SumSq(o) == FAdd(FAdd(FMul(o[1], o[1]), FMul(o[2], o[2])), FMul(o[3], o[3]))

\* Rotation axes with a norm that is a number of the model: the finite ones,
\* and those with a NaN or infinite component.
FiniteAxes == {o \in Coefs \X Coefs \X Coefs : HasRoot(SumSq(o))}

AxisVals == {F(0), F(1), NaN, PInf}

NonFiniteAxes ==
    {o \in AxisVals \X AxisVals \X AxisVals :
        ~(is_finite(o[1]) /\ is_finite(o[2]) /\ is_finite(o[3]))}

Axes == FiniteAxes \cup NonFiniteAxes

\* The receivers of rot: the quaternions among them have components 0 .. MaxCoef.
RotCoefs == {F(n) : n \in 0..MaxCoef}

RotNums == {Real(x) : x \in Coefs} \cup {Complex(c) : c \in CNums}
               \cup {Quaternion(QNum_make_from_r(r, i, j, k)) :
                        r \in RotCoefs, i \in RotCoefs, j \in RotCoefs, k \in RotCoefs}

(***************************************************************************)
(* The state: the call made (op, arg) and its outcome (ret, aborted).  One *)
(* action per operation of the library; each makes one call from the idle  *)
(* state, with inputs drawn from the sets above.                           *)
(***************************************************************************)
VARIABLES op, arg, ret, aborted

vars == <<op, arg, ret, aborted>>

Init == op = "idle" /\ arg = <<>> /\ ret = "none" /\ aborted = FALSE

\* A call of a function that cannot panic.
Call(name, a, value) ==
    /\ op' = name
    /\ arg' = a
    /\ ret' = value
    /\ aborted' = FALSE

DoNumsAdd ==
    /\ op = "idle"
    /\ \E x \in AllNums, y \in AllNums :
           Call("Nums_add", [self |-> x, rhs |-> y], Nums_add(x, y))

DoNumsMul ==
    /\ op = "idle"
    /\ \E x \in AllNums, y \in AllNums :
           Call("Nums_mul", [self |-> x, rhs |-> y], Nums_mul(x, y))

DoNumsNeg ==
    /\ op = "idle"
    /\ \E x \in AllNums : Call("Nums_neg", [self |-> x], Nums_neg(x))

DoNumsConj ==
    /\ op = "idle"
    /\ \E x \in AllNums : Call("Nums_conj", [self |-> x], Nums_conj(x))

DoNumsSet ==
    /\ op = "idle"
    /\ \E x \in AllNums, c \in Masks, v \in SetVals :
           Call("Nums_set", [self |-> x, c |-> c, v |-> v], Nums_set(x, c, v))

DoNumsRot ==
    /\ op = "idle"
    /\ \E x \in RotNums, ang \in Angles, o \in Axes :
           LET outcome == Nums_rot(x, ang, o)
           IN  /\ op' = "Nums_rot"
               /\ arg' = [self |-> x, ang |-> ang, o |-> o]
               /\ ret' = outcome.value
               /\ aborted' = outcome.aborted

DoCNumSet ==
    /\ op = "idle"
    /\ \E x \in CNums, c \in Masks, v \in SetVals :
           Call("CNum_set", [self |-> x, c |-> c, v |-> v], CNum_set(x, c, v))

DoCNumDivC ==
    /\ op = "idle"
    /\ \E x \in CNums, v \in CNums : Call("CNum_div_c", [self |-> x, v |-> v], CNum_div_c(x, v))

DoQNumSet ==
    /\ op = "idle"
    /\ \E x \in QNums, c \in Masks, v \in SetVals :
           Call("QNum_set", [self |-> x, c |-> c, v |-> v], QNum_set(x, c, v))

DoQNumConj ==
    /\ op = "idle"
    /\ \E x \in QNums : Call("QNum_conj", [self |-> x], QNum_conj(x))

DoQNumNorm ==
    /\ op = "idle"
    /\ \E x \in QNums : Call("QNum_norm", [self |-> x], QNum_norm(x))

DoQNumInv ==
    /\ op = "idle"
    /\ \E x \in QNums : Call("QNum_inv", [self |-> x], QNum_inv(x))

DoQNumMultC ==
    /\ op = "idle"
    /\ \E x \in QNums, v \in CNums : Call("QNum_mult_c", [self |-> x, v |-> v], QNum_mult_c(x, v))

DoQNumMultQ ==
    /\ op = "idle"
    /\ \E x \in QNums, v \in QNums : Call("QNum_mult_q", [self |-> x, v |-> v], QNum_mult_q(x, v))

\* Every call.
Next ==
    \/ DoNumsAdd \/ DoNumsMul \/ DoNumsNeg \/ DoNumsConj \/ DoNumsSet \/ DoNumsRot
    \/ DoCNumSet \/ DoCNumDivC
    \/ DoQNumSet \/ DoQNumConj \/ DoQNumNorm \/ DoQNumInv \/ DoQNumMultC \/ DoQNumMultQ

Spec == Init /\ [][Next]_vars

\* The arithmetic of the unified value.
NextNums == DoNumsAdd \/ DoNumsMul \/ DoNumsNeg \/ DoNumsConj

SpecNums == Init /\ [][NextNums]_vars

\* The arithmetic of CNum and QNum.
NextQuat ==
    DoCNumDivC \/ DoQNumConj \/ DoQNumNorm \/ DoQNumInv \/ DoQNumMultC \/ DoQNumMultQ

SpecQuat == Init /\ [][NextQuat]_vars

\* set(mask, value).
NextSet == DoNumsSet \/ DoCNumSet \/ DoQNumSet

SpecSet == Init /\ [][NextSet]_vars

\* Rotation, and the quaternion product it is made of.
NextRot == DoNumsRot \/ DoQNumMultQ

SpecRot == Init /\ [][NextRot]_vars

(***************************************************************************)
(* The Hamilton product, from the rules of the basis 1, i, j, k (indices   *)
(* 0..3): 1 is the unit, i*i = j*j = k*k = -1, i*j = k, j*k = i, k*i = j,  *)
(* and the reversed products are the negated ones.                         *)
(***************************************************************************)
BasisIdx(m, n) == IF m = 0 THEN n ELSE IF n = 0 THEN m ELSE IF m = n THEN 0 ELSE 6 - m - n

BasisSgn(m, n) ==
    IF m = 0 \/ n = 0 THEN 1
    ELSE IF m = n THEN -1
    ELSE IF <<m, n>> \in {<<1, 2>>, <<2, 3>>, <<3, 1>>} THEN 1
    ELSE -1

RECURSIVE FSum(_)
FSum(xs) == IF xs = <<>> THEN F(0) ELSE FAdd(xs[1], FSum(Tail(xs)))

\* The coefficient of basis element t in a*b: the sum, over the pairs (m, n)
\* whose product is +-t, of the signed products of the coefficients.
HamiltonCoef(a, b, t) ==
    FSum([m \in 1..4 |->
            LET n == CHOOSE n \in 0..3 : BasisIdx(m - 1, n) = t
            IN  FMul(F(BasisSgn(m - 1, n)), FMul(QNum_get(a)[m], QNum_get(b)[n + 1]))])

Hamilton(a, b) ==
    [r |-> HamiltonCoef(a, b, 0), i |-> HamiltonCoef(a, b, 1),
     j |-> HamiltonCoef(a, b, 2), k |-> HamiltonCoef(a, b, 3)]

\* The complex number c as the quaternion (c.r, c.i, 0, 0).
AsQuaternion(c) == QNum_make_from_r(c.r, c.i, F(0), F(0))

TagRank(tag) == CASE tag = "Real" -> 1 [] tag = "Complex" -> 2 [] tag = "Quaternion" -> 3

WiderTag(t1, t2) == IF TagRank(t1) >= TagRank(t2) THEN t1 ELSE t2

(***************************************************************************)
(* C1.  Mixed multiplication on Nums preserves the operand order:          *)
(* Complex(c) * Quaternion(q) is the Hamilton product with c, taken as     *)
(* (c.r, c.i, 0, 0), on the left and q on the right, and                   *)
(* Quaternion(q) * Complex(c) is the Hamilton product with q on the left   *)
(* and c on the right.  The code computes q.mult_c(c), that is q*c, in     *)
(* both orders, so the first half fails.                                   *)
(***************************************************************************)
C1_MixedMulKeepsOperandOrder ==
    op = "Nums_mul" =>
        /\ (arg.self.tag = "Complex" /\ arg.rhs.tag = "Quaternion") =>
               ret = Quaternion(Hamilton(AsQuaternion(arg.self.val), arg.rhs.val))
        /\ (arg.self.tag = "Quaternion" /\ arg.rhs.tag = "Complex") =>
               ret = Quaternion(Hamilton(arg.self.val, AsQuaternion(arg.rhs.val)))

(***************************************************************************)
(* C3.  For each of the 9 ordered pairs of variants, the result of + and   *)
(* of * is of the wider of the two operand variants, in the order          *)
(* Real < Complex < Quaternion.                                            *)
(***************************************************************************)
C3_ResultInWiderVariant ==
    op \in {"Nums_add", "Nums_mul"} =>
        /\ ~aborted
        /\ ret.tag = WiderTag(arg.self.tag, arg.rhs.tag)

C3_Witness ==
    /\ op = "Nums_add"
    /\ arg.self.tag = "Complex"
    /\ arg.rhs.tag = "Real"
    /\ ret.tag = "Complex"

(***************************************************************************)
(* C2.  Nums::rot aborts if and only if the receiver is the Quaternion     *)
(* variant and the axis is the zero vector (0, 0, 0).  As stated, this     *)
(* fails: a quaternion rotated about an axis with a NaN component, or with *)
(* an infinite first component, is rejected too.                           *)
(***************************************************************************)
ZeroAxis == <<F(0), F(0), F(0)>>

FiniteAxis(o) == is_finite(o[1]) /\ is_finite(o[2]) /\ is_finite(o[3])

C2_AbortsIffQuaternionAndZeroAxis ==
    op = "Nums_rot" => (aborted <=> (arg.self.tag = "Quaternion" /\ arg.o = ZeroAxis))

(***************************************************************************)
(* C2, amended.  Nums::rot aborts if and only if the receiver is the       *)
(* Quaternion variant and the first component of the normalized axis is    *)
(* NaN, which is when the computed norm of the axis is 0, a component of   *)
(* the axis is NaN, or its first component is infinite.  A quaternion      *)
(* rotated about the zero axis is always rejected, a quaternion rotated    *)
(* about a finite axis whose computed norm is not 0 always returns a       *)
(* Quaternion, and a Real or Complex receiver returns a value of its own   *)
(* variant for every axis.                                                 *)
(***************************************************************************)
ComputedNorm(o) == powf_half(SumSq(o))

\* The axes whose normalization is NaN in its first component.
NaNWhenNormalized(o) ==
    \/ FEq(ComputedNorm(o), F(0))
    \/ is_nan(o[1]) \/ is_nan(o[2]) \/ is_nan(o[3])
    \/ IsInf(o[1])

C2_AbortsIffQuaternionAndNaNAxis ==
    op = "Nums_rot" =>
        /\ aborted <=> (arg.self.tag = "Quaternion" /\ NaNWhenNormalized(arg.o))
        /\ (arg.self.tag = "Quaternion" /\ arg.o = ZeroAxis) => aborted
        /\ (arg.self.tag = "Quaternion" /\ FiniteAxis(arg.o)
                /\ ~FEq(ComputedNorm(arg.o), F(0))) =>
               (~aborted /\ ret.tag = "Quaternion")
        /\ arg.self.tag /= "Quaternion" => (~aborted /\ ret.tag = arg.self.tag)

\* A quaternion is rejected for the zero axis.
C2_Witness ==
    /\ op = "Nums_rot"
    /\ arg.self.tag = "Quaternion"
    /\ arg.o = ZeroAxis
    /\ aborted

(***************************************************************************)
(* C4.  For every mask c in 0..255 and value v, set(c, v) on a quaternion  *)
(* returns a copy in which component idx (r = 0, i = 1, j = 2, k = 3) is v *)
(* exactly when bit idx of c is set, and is the receiver's component       *)
(* otherwise; on a complex number the same holds for r (bit 0) and i       *)
(* (bit 1).  The mask bits that name no component change nothing, and mask *)
(* 0 returns the receiver's value.                                         *)
(***************************************************************************)
BitSet(c, idx) == (c \div (2 ^ idx)) % 2 = 1

Overwritten(c, idx, v, old) == IF BitSet(c, idx) THEN v ELSE old

QNumOverwritten(q, c, v) ==
    [r |-> Overwritten(c, 0, v, q.r), i |-> Overwritten(c, 1, v, q.i),
     j |-> Overwritten(c, 2, v, q.j), k |-> Overwritten(c, 3, v, q.k)]

CNumOverwritten(x, c, v) ==
    [r |-> Overwritten(c, 0, v, x.r), i |-> Overwritten(c, 1, v, x.i)]

C4_SetOverwritesExactlyTheMaskedComponents ==
    /\ op = "QNum_set" =>
           /\ ret = QNumOverwritten(arg.self, arg.c, arg.v)
           /\ ret = QNumOverwritten(arg.self, arg.c % 16, arg.v)
           /\ arg.c = 0 => ret = arg.self
    /\ op = "CNum_set" =>
           /\ ret = CNumOverwritten(arg.self, arg.c, arg.v)
           /\ ret = CNumOverwritten(arg.self, arg.c % 4, arg.v)
           /\ arg.c = 0 => ret = arg.self
    /\ (op = "Nums_set" /\ arg.self.tag = "Quaternion") =>
           ret = Quaternion(QNumOverwritten(arg.self.val, arg.c, arg.v))
    /\ (op = "Nums_set" /\ arg.self.tag = "Complex") =>
           ret = Complex(CNumOverwritten(arg.self.val, arg.c, arg.v))

\* R|K (with a bit that names nothing) on a quaternion whose j and k differ
\* from the value written.
C4_Witness ==
    /\ op = "QNum_set"
    /\ arg.c = 1 + 8 + 64
    /\ arg.self.j /= arg.v /\ arg.self.k /= arg.v /\ arg.self.i /= arg.v
    /\ ret.r = arg.v /\ ret.k = arg.v /\ ret.j = arg.self.j /\ ret.i = arg.self.i

(***************************************************************************)
(* C5.  Rotating a quaternion v with Nums::rot(angle, axis) about a finite *)
(* non-zero axis returns q * v * conj(q), q on the left, for               *)
(* q = (cos(a/2), sin(a/2)*n), a the angle in radians and n the normalized *)
(* axis.  It is the right-handed rotation by the angle about the axis      *)
(* (Rodrigues' formula on the vector part, the real part kept): rotating   *)
(* (0, 1, 0, 0) by 90 degrees about (0, 0, 1) gives (0, 0, 1, 0), not      *)
(* (0, 0, -1, 0).                                                          *)
(***************************************************************************)
\* The angle of ang degrees, in the units of cos and sin.
Radians(ang) == FDiv(FMul(ang, F(PI)), F(180))

UnitAxis(o) ==
    <<FDiv(o[1], ComputedNorm(o)), FDiv(o[2], ComputedNorm(o)), FDiv(o[3], ComputedNorm(o))>>

RotationQuaternion(ang, o) ==
    LET n == UnitAxis(o)
        h == FDiv(Radians(ang), F(2))
    IN  [r |-> cos(h), i |-> FMul(sin(h), n[1]), j |-> FMul(sin(h), n[2]),
         k |-> FMul(sin(h), n[3])]

Conjugate(q) == [r |-> q.r, i |-> FNeg(q.i), j |-> FNeg(q.j), k |-> FNeg(q.k)]

Cross(n, w) ==
    <<FSub(FMul(n[2], w[3]), FMul(n[3], w[2])),
      FSub(FMul(n[3], w[1]), FMul(n[1], w[3])),
      FSub(FMul(n[1], w[2]), FMul(n[2], w[1]))>>

Dot(n, w) == FAdd(FAdd(FMul(n[1], w[1]), FMul(n[2], w[2])), FMul(n[3], w[3]))

\* w*cos(t) + (n x w)*sin(t) + n*(n.w)*(1 - cos(t)) on the vector part w of v.
Rodrigues(v, ang, o) ==
    LET n == UnitAxis(o)
        w == <<v.i, v.j, v.k>>
        c == cos(Radians(ang))
        s == sin(Radians(ang))
        x == Cross(n, w)
        d == FMul(Dot(n, w), FSub(F(1), c))
        at(m) == FAdd(FAdd(FMul(w[m], c), FMul(x[m], s)), FMul(n[m], d))
    IN  [r |-> v.r, i |-> at(1), j |-> at(2), k |-> at(3)]

C7_MultQIsTheHamiltonProduct ==
    /\ op = "QNum_mult_q" => ret = Hamilton(arg.self, arg.v)
    /\ QNum_mult_q(QNum_make_from_r(F(4), F(4), F(4), F(4)),
                   QNum_make_from_r(F(6), F(6), F(6), F(6)))
           = QNum_make_from_r(F(-48), F(48), F(48), F(48))

\* A product of two quaternions that do not commute.
C7_Witness ==
    /\ op = "QNum_mult_q"
    /\ ret = Hamilton(arg.self, arg.v)
    /\ ret /= Hamilton(arg.v, arg.self)

SumOfSquares(q) ==
    FAdd(FAdd(FAdd(FMul(q.r, q.r), FMul(q.i, q.i)), FMul(q.j, q.j)), FMul(q.k, q.k))

NonFinite(x) == is_nan(x) \/ IsInf(x)

DegeneraciesReturn ==
    /\ (op = "CNum_div_c" /\ arg.v = CNum_make_zero) =>
           (~aborted /\ NonFinite(ret.r) /\ NonFinite(ret.i))
    /\ (op = "QNum_inv" /\ arg.self = QNum_make_zero) =>
           (~aborted /\ NonFinite(ret.r) /\ NonFinite(ret.i)
                /\ NonFinite(ret.j) /\ NonFinite(ret.k))

C11_RealIsLeftAlone ==
    (op \in {"Nums_conj", "Nums_set", "Nums_rot"} /\ arg.self.tag = "Real") =>
        /\ ~aborted
        /\ ret = Real(arg.self.val)

\* set on a Real with the R bit of the mask set and a value that is not x.
C11_Witness ==
    /\ op = "Nums_set"
    /\ arg.self.tag = "Real"
    /\ BitSet(arg.c, 0)
    /\ arg.v /= arg.self.val
    /\ ret = arg.self

(***************************************************************************)
(* C12.  Adding a complex number to a quaternion changes only r and i:     *)
(* Quaternion(q) + Complex(c) and Complex(c) + Quaternion(q) are both      *)
(* Quaternion((q.r + c.r, q.i + c.i, q.j, q.k)), with j and k unchanged.   *)
(***************************************************************************)
QuaternionPlusComplex(q, c) ==
    Quaternion(QNum_make_from_r(FAdd(q.r, c.r), FAdd(q.i, c.i), q.j, q.k))

C12_AddComplexChangesOnlyRAndI ==
    op = "Nums_add" =>
        /\ (arg.self.tag = "Quaternion" /\ arg.rhs.tag = "Complex") =>
               ret = QuaternionPlusComplex(arg.self.val, arg.rhs.val)
        /\ (arg.self.tag = "Complex" /\ arg.rhs.tag = "Quaternion") =>
               ret = QuaternionPlusComplex(arg.rhs.val, arg.self.val)

\* Complex(1,1) + Quaternion(0,0,1,1) is Quaternion(1,1,1,1).
C12_Witness ==
    /\ op = "Nums_add"
    /\ arg.self = Complex(CNum_make(F(1), F(1)))
    /\ arg.rhs = Quaternion(QNum_make_from_r(F(0), F(0), F(1), F(1)))
    /\ ret = Quaternion(QNum_make_from_r(F(1), F(1), F(1), F(1)))

(***************************************************************************)
(* Conjugation applied twice.  The first call conjugates a value whose     *)
(* components are any f32 of the model, NaN and the infinities included;   *)
(* the second call conjugates what the first one returned.                 *)
(***************************************************************************)
ConjCoefs == Coefs \cup {NaN, PInf, NInf}

ConjCNums == {CNum_make(r, i) : r \in ConjCoefs, i \in ConjCoefs}

ConjQNums ==
    {QNum_make_from_r(r, i, j, k) :
        r \in ConjCoefs, i \in ConjCoefs, j \in ConjCoefs, k \in ConjCoefs}

ConjNums == {Real(x) : x \in ConjCoefs} \cup {Complex(c) : c \in ConjCNums}
                \cup {Quaternion(q) : q \in ConjQNums}

DoCNumConj ==
    /\ op = "idle"
    /\ \E x \in ConjCNums : Call("CNum_conj", [self |-> x], CNum_conj(x))

DoQNumConjOfAny ==
    /\ op = "idle"
    /\ \E x \in ConjQNums : Call("QNum_conj", [self |-> x], QNum_conj(x))

DoNumsConjOfAny ==
    /\ op = "idle"
    /\ \E x \in ConjNums : Call("Nums_conj", [self |-> x], Nums_conj(x))

\* x.conj().conj(): conj is called on the value the first conj returned.
DoConjAgain ==
    /\ op \in {"CNum_conj", "QNum_conj", "Nums_conj"}
    /\ op' = (CASE op = "CNum_conj" -> "CNum_conj_conj"
                [] op = "QNum_conj" -> "QNum_conj_conj"
                [] op = "Nums_conj" -> "Nums_conj_conj")
    /\ ret' = (CASE op = "CNum_conj" -> CNum_conj(ret)
                 [] op = "QNum_conj" -> QNum_conj(ret)
                 [] op = "Nums_conj" -> Nums_conj(ret))
    /\ aborted' = FALSE
    /\ UNCHANGED arg

NextConj == DoCNumConj \/ DoQNumConjOfAny \/ DoNumsConjOfAny \/ DoConjAgain

SpecConj == Init /\ [][NextConj]_vars

(***************************************************************************)
(* C13.  Conjugation is an involution: for every complex number x,         *)
(* x.conj().conj() == x, for every quaternion x, x.conj().conj() == x, and *)
(* Nums::conj applied twice to any Nums value returns a value equal to the *)
(* original, in the same variant.  As stated, for every x, this fails: ==  *)
(* is the comparison of f32, under which NaN is equal to nothing, so a     *)
(* value with a NaN component is not equal to its double conjugate.        *)
(***************************************************************************)
C13_ConjIsAnInvolution ==
    /\ op = "CNum_conj_conj" => CNum_eq(ret, arg.self)
    /\ op = "QNum_conj_conj" => QNum_eq(ret, arg.self)
    /\ op = "Nums_conj_conj" => (Nums_eq(ret, arg.self) /\ ret.tag = arg.self.tag)

(***************************************************************************)
(* C13, amended.  For every complex number and every quaternion x with no  *)
(* NaN component (the infinite ones included), x.conj().conj() == x, and   *)
(* Nums::conj applied twice to such a Nums value returns a value equal to  *)
(* the original.  For every x the double conjugate is in the variant of x  *)
(* and has the components of x; when a component of x is NaN it is not ==  *)
(* to x, as x is not == to itself.                                         *)
(***************************************************************************)
CNumHasNaN(x) == is_nan(x.r) \/ is_nan(x.i)

QNumHasNaN(x) == is_nan(x.r) \/ is_nan(x.i) \/ is_nan(x.j) \/ is_nan(x.k)

NumsHasNaN(x) ==
    CASE x.tag = "Real" -> is_nan(x.val)
      [] x.tag = "Complex" -> CNumHasNaN(x.val)
      [] x.tag = "Quaternion" -> QNumHasNaN(x.val)

C13_ConjIsAnInvolutionWithoutNaN ==
    /\ op = "CNum_conj_conj" =>
           /\ CNum_eq(ret, arg.self) <=> ~CNumHasNaN(arg.self)
           /\ ret = arg.self
    /\ op = "QNum_conj_conj" =>
           /\ QNum_eq(ret, arg.self) <=> ~QNumHasNaN(arg.self)
           /\ ret = arg.self
    /\ op = "Nums_conj_conj" =>
           /\ Nums_eq(ret, arg.self) <=> ~NumsHasNaN(arg.self)
           /\ ret.tag = arg.self.tag
           /\ ret = arg.self

\* A quaternion with an infinite component and three that change sign twice.
C13_Witness ==
    /\ op = "QNum_conj_conj"
    /\ arg.self = QNum_make_from_r(PInf, F(1), F(-1), F(1))
    /\ QNum_eq(ret, arg.self)

(***************************************************************************)
(* Two rotations in a row.  The rotation of v by q is the product          *)
(* q.mult_q(v).mult_q(q.conj()) of the Quaternion arm of Nums::rot; the    *)
(* first call rotates v by q1, the second rotates what the first returned  *)
(* by q2.                                                                  *)
(***************************************************************************)
QNum_sandwich(q, qnum) == QNum_mult_q(QNum_mult_q(q, QNum_clone(qnum)), QNum_conj(q))

\* The second factors have components 0 .. MaxCoef.
RotQNums ==
    {QNum_make_from_r(r, i, j, k) :
        r \in RotCoefs, i \in RotCoefs, j \in RotCoefs, k \in RotCoefs}

\* The rotated values: the basis 1, i, j, k, of which every quaternion is a
\* combination (the rotation is linear in the rotated value), and one value
\* with components of both signs.
RotVecs ==
    {QNum_make_from_r(F(1), F(0), F(0), F(0)), QNum_make_from_r(F(0), F(1), F(0), F(0)),
     QNum_make_from_r(F(0), F(0), F(1), F(0)), QNum_make_from_r(F(0), F(0), F(0), F(1)),
     QNum_make_from_r(F(1), F(-1), F(1), F(-1))}

DoSandwich ==
    /\ op = "idle"
    /\ \E q1 \in QNums, v \in RotVecs :
           Call("sandwich", [q1 |-> q1, v |-> v], QNum_sandwich(q1, v))

DoSandwichAgain ==
    /\ op = "sandwich"
    /\ \E q2 \in RotQNums :
           Call("sandwich_sandwich", [q1 |-> arg.q1, q2 |-> q2, v |-> arg.v],
                QNum_sandwich(q2, ret))

NextCompose == DoSandwich \/ DoSandwichAgain

SpecCompose == Init /\ [][NextCompose]_vars

(***************************************************************************)
(* C14.  Successive sandwich rotations compose into one: for all           *)
(* quaternions q1, q2 and v, in exact arithmetic,                          *)
(* q2.mult_q(q1.mult_q(v).mult_q(q1.conj())).mult_q(q2.conj()) is          *)
(* p.mult_q(v).mult_q(p.conj()) with p = q2.mult_q(q1).  mult_q is         *)
(* associative and conj reverses products: conj(a*b) = conj(b)*conj(a).    *)
(***************************************************************************)
C14_SandwichesCompose ==
    op = "sandwich_sandwich" =>
        LET p == QNum_mult_q(arg.q2, arg.q1)
        IN  /\ ret = QNum_mult_q(QNum_mult_q(p, arg.v), QNum_conj(p))
            /\ QNum_mult_q(QNum_mult_q(arg.q2, arg.q1), arg.v)
                   = QNum_mult_q(arg.q2, QNum_mult_q(arg.q1, arg.v))
            /\ QNum_conj(p) = QNum_mult_q(QNum_conj(arg.q1), QNum_conj(arg.q2))

\* Two factors that do not commute: i rotated by i and then by j is -i.
C14_Witness ==
    /\ op = "sandwich_sandwich"
    /\ arg.q1 = QNum_make_from_r(F(0), F(1), F(0), F(0))
    /\ arg.q2 = QNum_make_from_r(F(0), F(0), F(1), F(0))
    /\ arg.v = QNum_make_from_r(F(0), F(1), F(0), F(0))
    /\ QNum_mult_q(arg.q1, arg.q2) /= QNum_mult_q(arg.q2, arg.q1)
    /\ ret = QNum_make_from_r(F(0), F(-1), F(0), F(0))
====
